---- MODULE Spec2Model ----
(***************************************************************************)
(* State-machine model of CdkVirtualScrollViewport                         *)
(* (src/cdk-experimental/scrolling/virtual-scroll-viewport.ts).            *)
(*                                                                         *)
(* The viewport's fields are the program variables.  JavaScript runs one   *)
(* synchronous task at a time: the calls made on the viewport inside one   *)
(* task are the steps taken while phase = "task"; promise callbacks run    *)
(* only once the task has returned (phase = "idle").  NgZone.onStable may  *)
(* emit at the end of the task, or, when the setter was called from        *)
(* outside the Angular zone, as soon as the setter's NgZone.run() returns, *)
(* which is in the middle of the task.                                     *)
(*                                                                         *)
(* An optional value (T | null) is a sequence of length at most one.       *)
(***************************************************************************)
EXTENDS Integers, Sequences, FiniteSets, TLC

\* ------------------------------------------------------------- bounds
NumSources == 2
MaxLen == 1
MaxIdx == 1
MaxSize == 1
MaxOffset == 1
MaxCalls == 3

Sources == 1..NumSources
Lengths == 0..MaxLen
ListRange == [start : 0..MaxIdx, end : 0..MaxIdx]
Sizes == 0..MaxSize
Offsets == 0..MaxOffset
Edges == {"to-start", "to-end"}
Orientations == {"horizontal", "vertical"}
\* The ranges a caller asks measureRangeSize for: they may reach past every
\* range that is rendered.
MeasuredRange == [start : 0..(MaxIdx + 1), end : 0..(MaxIdx + 1)]

VARIABLES
    orientation,                \* @Input() orientation
    forOf,                      \* _forOf: <<>> (null) or <<source>>
    subscription,               \* per source, its dataStream subscription made by attach():
                                \*   "none", "live", or "closed" (ended by takeUntil)
    detachedSubjectStopped,     \* _detachedSubject has completed
    renderedRangeSubjectStopped,\* _renderedRangeSubject has completed
    dataLength,                 \* _dataLength
    renderedRange,              \* _renderedRange
    totalContentSize,           \* _totalContentSize
    renderedContentTransform,   \* _renderedContentTransform: <<>> (undefined) or <<SafeStyle>>
    pendingScrollOffset,        \* _pendingScrollOffset: <<>> (unset) or <<offset>>
    scrollLeft,                 \* elementRef.nativeElement.scrollLeft
    scrollTop,                  \* elementRef.nativeElement.scrollTop
    stableSubs,                 \* onStable.pipe(take(1)) subscriptions not yet fired
    microtasks,                 \* queued Promise.resolve().then(onContentRendered)
    phase,                      \* "task": a synchronous task is running; "idle": it returned
    nCalls,                     \* calls made in the running task
    last,                       \* the last step: operation, argument and what it did
    rangeChanges,               \* history: range-changing setRenderedRange calls this cycle
    renderedCalls,              \* history: onContentRendered calls this cycle
    seqProgress,                \* history: progress of the task through the call sequence
                                \*   setRenderedRange, setTotalContentSize, setRenderedContentOffset
    renderedAt,                 \* history: seqProgress when onContentRendered last ran
    offsetCalls,                \* history: setScrollOffset calls since the last ngDoCheck (0, 1, many)
    lastOffsetArg,              \* history: argument of the last setScrollOffset call
    stale,                      \* history: pending notifications that predate a detach/destroy
    initState,                  \* ngOnInit: "constructed", "queued" (its promise callback is
                                \*   queued) or "done" (the callback has run)
    viewportSize,               \* _viewportSize
    scrollListening,            \* the fromEvent(viewportEl, 'scroll') subscription is live
    sampleHasValue,             \* sampleTime holds a scroll event not yet sampled
    attachCalls,                \* history: _scrollStrategy.attach calls (0, 1, many)
    eventsInFrame               \* history: scroll events since the last animation frame (0, 1, many)

progVars == <<orientation, forOf, subscription, detachedSubjectStopped,
              renderedRangeSubjectStopped, dataLength, renderedRange, totalContentSize,
              renderedContentTransform, pendingScrollOffset, scrollLeft, scrollTop>>
schedVars == <<stableSubs, microtasks, phase, nCalls>>
histVars == <<rangeChanges, renderedCalls, seqProgress, renderedAt, offsetCalls,
              lastOffsetArg, stale>>
lifeVars == <<initState, viewportSize, scrollListening, sampleHasValue, attachCalls,
              eventsInFrame>>
vars == <<progVars, schedVars, last, histVars, lifeVars>>

\* What one step did: the operation and its argument, the policy callbacks it
\* invoked, the ranges it published on renderedRangeStream, whether it threw,
\* whether it called markForCheck, and the physical scroll writes it made.
\* Also: the data length before the step, and, when the step repeats the
\* previous step's operation and argument, the number of notifications
\* (callbacks and published ranges) that previous step made.
Step(op, arg, calls, pub, err, marked, writes) ==
    [op |-> op, arg |-> arg, calls |-> calls, pub |-> pub, err |-> err,
     marked |-> marked, writes |-> writes, old |-> dataLength,
     again |-> IF last.op = op /\ last.arg = arg
               THEN <<Len(last.calls) + Len(last.pub)>>
               ELSE <<>>]

Quiet(op, arg) == Step(op, arg, <<>>, <<>>, FALSE, FALSE, <<>>)

\* ------------------------------------------------------------- helpers

\* Mutant: the ranges compared by reference (r1 == r2), so that a range
\* object built by the caller never equals the stored one.
RangesEqualByReference(r1, r2) == FALSE

\* rangesEqual(r1, r2)
RangesEqual(r1, r2) == r1.start = r2.start /\ r1.end = r2.end

\* const axis = this.orientation === 'horizontal' ? 'X' : 'Y'
Axis == IF orientation = "horizontal" THEN "X" ELSE "Y"

\* The transform with its two components in the other order.
TransformStringEndFirst(offset, to) ==
    LET transform == "translate" \o Axis \o "(" \o ToString(offset) \o "px)"
    IN  IF to = "to-end"
        THEN "translate" \o Axis \o "(-100%) " \o transform
        ELSE transform

\* The string setRenderedContentOffset builds from offset and edge.
TransformString(offset, to) ==
    LET transform == "translate" \o Axis \o "(" \o ToString(offset) \o "px)"
    IN  IF to = "to-end"
        THEN transform \o " translate" \o Axis \o "(-100%)"
        ELSE transform

\* DomSanitizer.bypassSecurityTrustStyle wraps the string in a SafeStyle object.
BypassSecurityTrustStyle(value) == [changingThisBreaksApplicationSecurity |-> value]

\* SafeStyle's toString(), which `!=` uses to compare the object to a string.
SafeValueToString(safe) ==
    "SafeValue must use [property]=binding: "
        \o safe.changingThisBreaksApplicationSecurity
        \o " (see http://g.co/ng/security#xss)"

\* this._renderedContentTransform != transform
TransformDiffers(transform) ==
    \/ renderedContentTransform = <<>>
    \/ SafeValueToString(renderedContentTransform[1]) # transform

\* Mutant: the length comparison dropped.
LengthChangedAlways(len) == TRUE

\* len != this._dataLength
LengthChanged(len) == len # dataLength

\* Mutant: the new length is not stored.
NextDataLengthStale(len) == dataLength

\* if (len != this._dataLength) { this._dataLength = len; ... }
NextDataLength(len) == IF LengthChanged(len) THEN len ELSE dataLength

\* Mutant: the already-attached check dropped.
AlreadyAttachedNever == FALSE

\* if (this._forOf) { throw ... }
AlreadyAttached == forOf # <<>>

\* Mutant: a pending offset is not overwritten.
NextPendingScrollOffsetKeepFirst(offset) ==
    IF pendingScrollOffset # <<>> THEN pendingScrollOffset ELSE <<offset>>

\* this._pendingScrollOffset = offset
NextPendingScrollOffset(offset) == <<offset>>

\* The physical scroll property ngDoCheck writes and measureScrollOffset reads.
ScrollProp == IF orientation = "horizontal" THEN "scrollLeft" ELSE "scrollTop"

\* measureScrollOffset()
MeasureScrollOffset == IF orientation = "horizontal" THEN scrollLeft ELSE scrollTop

\* Mutant: detach() without this._detachedSubject.next().
DetachKeepSubscription ==
    /\ forOf' = <<>>
    /\ UNCHANGED subscription

\* this._forOf = null; this._detachedSubject.next(): every subscription made
\* with takeUntil(_detachedSubject) ends, unless the subject has completed
\* and next() no longer emits.
DetachEffect ==
    /\ forOf' = <<>>
    /\ subscription' =
           IF detachedSubjectStopped
           THEN subscription
           ELSE [s \in Sources |->
                    IF subscription[s] = "live" THEN "closed" ELSE subscription[s]]

\* ------------------------------------------------------------- history

Min(a, b) == IF a < b THEN a ELSE b

\* Progress of the running task through the exact call sequence
\* setRenderedRange (changing the range), setTotalContentSize,
\* setRenderedContentOffset; 4 once the task has made any other call.
SeqNext(op, changed) ==
    IF op = "setRenderedRange" /\ changed /\ seqProgress = 0 /\ nCalls = 0 THEN 1
    ELSE IF op = "setTotalContentSize" /\ seqProgress = 1 THEN 2
    ELSE IF op = "setRenderedContentOffset" /\ seqProgress = 2 THEN 3
    ELSE 4

\* A call made on the viewport from inside the running task.
Call(op, changed) ==
    /\ phase = "task"
    /\ nCalls < MaxCalls
    /\ nCalls' = nCalls + 1
    /\ phase' = phase
    /\ seqProgress' = SeqNext(op, changed)

\* ------------------------------------------------------------- initial state

\* The state after construction, the orientation input bound to one of orients.
InitWith(orients) ==
    /\ orientation \in orients
    /\ forOf = <<>>
    /\ subscription = [s \in Sources |-> "none"]
    /\ detachedSubjectStopped = FALSE
    /\ renderedRangeSubjectStopped = FALSE
    /\ dataLength = 0
    /\ renderedRange = [start |-> 0, end |-> 0]
    /\ totalContentSize = 0
    /\ renderedContentTransform = <<>>
    /\ pendingScrollOffset = <<>>
    /\ scrollLeft = 0
    /\ scrollTop = 0
    /\ stableSubs = 0
    /\ microtasks = 0
    /\ phase = "idle"
    /\ nCalls = 0
    /\ last = [op |-> "init", arg |-> <<>>, calls |-> <<>>, pub |-> <<>>, err |-> FALSE,
               marked |-> FALSE, writes |-> <<>>, old |-> 0, again |-> <<>>]
    /\ rangeChanges = 0
    /\ renderedCalls = 0
    /\ seqProgress = 0
    /\ renderedAt = 0
    /\ offsetCalls = 0
    /\ lastOffsetArg = <<>>
    /\ stale = 0
    /\ initState = "constructed"
    /\ viewportSize = 0
    /\ scrollListening = FALSE
    /\ sampleHasValue = FALSE
    /\ attachCalls = 0
    /\ eventsInFrame = 0

Init == InitWith(Orientations)

\* ------------------------------------------------------------- operations

\* attach(forOf)
Attach(s) ==
    /\ Call("attach", FALSE)
    /\ IF AlreadyAttached
       THEN /\ last' = Step("attach", s, <<>>, <<>>, TRUE, FALSE, <<>>)
            /\ UNCHANGED <<forOf, subscription>>
       ELSE /\ forOf' = <<s>>
            /\ subscription' = [subscription EXCEPT ![s] = "live"]
            /\ last' = Quiet("attach", s)
    /\ UNCHANGED <<orientation, detachedSubjectStopped, renderedRangeSubjectStopped,
                   dataLength, renderedRange, totalContentSize, renderedContentTransform,
                   pendingScrollOffset, scrollLeft, scrollTop, stableSubs, microtasks,
                   rangeChanges, renderedCalls, renderedAt, offsetCalls, lastOffsetArg,
                   stale>>
    /\ UNCHANGED lifeVars

\* A detach() that, like attach(), insists on its precondition: it throws when
\* no data source is attached.
DetachStrict ==
    /\ Call("detach", FALSE)
    /\ IF forOf = <<>>
       THEN /\ last' = Step("detach", <<>>, <<>>, <<>>, TRUE, FALSE, <<>>)
            /\ UNCHANGED <<forOf, subscription, stale>>
       ELSE /\ DetachEffect
            /\ stale' = stableSubs + microtasks
            /\ last' = Quiet("detach", <<>>)
    /\ UNCHANGED <<orientation, detachedSubjectStopped, renderedRangeSubjectStopped,
                   dataLength, renderedRange, totalContentSize, renderedContentTransform,
                   pendingScrollOffset, scrollLeft, scrollTop, stableSubs, microtasks,
                   rangeChanges, renderedCalls, renderedAt, offsetCalls, lastOffsetArg>>
    /\ UNCHANGED lifeVars

\* detach()
Detach ==
    /\ Call("detach", FALSE)
    /\ DetachEffect
    /\ stale' = stableSubs + microtasks
    /\ last' = Quiet("detach", <<>>)
    /\ UNCHANGED <<orientation, detachedSubjectStopped, renderedRangeSubjectStopped,
                   dataLength, renderedRange, totalContentSize, renderedContentTransform,
                   pendingScrollOffset, scrollLeft, scrollTop, stableSubs, microtasks,
                   rangeChanges, renderedCalls, renderedAt, offsetCalls, lastOffsetArg>>
    /\ UNCHANGED lifeVars

\* ngOnDestroy()
NgOnDestroy ==
    /\ Call("ngOnDestroy", FALSE)
    /\ DetachEffect
    /\ renderedRangeSubjectStopped' = TRUE
    /\ detachedSubjectStopped' = TRUE
    /\ stale' = stableSubs + microtasks
    /\ last' = Step("ngOnDestroy", <<>>, <<"detach">>, <<>>, FALSE, FALSE, <<>>)
    /\ UNCHANGED <<orientation, dataLength, renderedRange, totalContentSize,
                   renderedContentTransform, pendingScrollOffset, scrollLeft, scrollTop,
                   stableSubs, microtasks, rangeChanges, renderedCalls, renderedAt,
                   offsetCalls, lastOffsetArg>>
    /\ UNCHANGED lifeVars

\* The data source s emits data of length len on its dataStream; the
\* subscriber set up in attach() runs if its subscription is live.
Emit(s, len) ==
    /\ Call("emit", FALSE)
    /\ IF subscription[s] = "live"
       THEN /\ dataLength' = NextDataLength(len)
            /\ last' = Step("emit", <<s, len>>,
                            IF LengthChanged(len) THEN <<"onDataLengthChanged">> ELSE <<>>,
                            <<>>, FALSE, FALSE, <<>>)
       ELSE /\ UNCHANGED dataLength
            /\ last' = Quiet("emit", <<s, len>>)
    /\ UNCHANGED <<orientation, forOf, subscription, detachedSubjectStopped,
                   renderedRangeSubjectStopped, renderedRange, totalContentSize,
                   renderedContentTransform, pendingScrollOffset, scrollLeft, scrollTop,
                   stableSubs, microtasks, rangeChanges, renderedCalls, renderedAt,
                   offsetCalls, lastOffsetArg, stale>>
    /\ UNCHANGED lifeVars

\* setTotalContentSize(size)
SetTotalContentSize(size) ==
    /\ Call("setTotalContentSize", FALSE)
    /\ IF totalContentSize # size
       THEN /\ totalContentSize' = size
            /\ last' = Step("setTotalContentSize", size, <<>>, <<>>, FALSE, TRUE, <<>>)
       ELSE /\ UNCHANGED totalContentSize
            /\ last' = Quiet("setTotalContentSize", size)
    /\ UNCHANGED <<orientation, forOf, subscription, detachedSubjectStopped,
                   renderedRangeSubjectStopped, dataLength, renderedRange,
                   renderedContentTransform, pendingScrollOffset, scrollLeft, scrollTop,
                   stableSubs, microtasks, rangeChanges, renderedCalls, renderedAt,
                   offsetCalls, lastOffsetArg, stale>>
    /\ UNCHANGED lifeVars

\* The value of _renderedRange while the subscribers of renderedRangeStream run:
\* with the assignment moved after the call of next() it is still the old range.
RangeAtPublishStale(range) == renderedRange

\* `_renderedRangeSubject.next(this._renderedRange = range)`: the argument, and
\* with it the assignment, is evaluated before next() is entered, so the
\* subscribers already read the new range from getRenderedRange().
RangeAtPublish(range) == range

\* setRenderedRange(range)
SetRenderedRange(range) ==
    /\ Call("setRenderedRange", ~RangesEqual(renderedRange, range))
    /\ IF ~RangesEqual(renderedRange, range)
       THEN /\ renderedRange' = range
            /\ last' = Step("setRenderedRange", range, <<>>,
                            IF renderedRangeSubjectStopped
                            THEN <<>>
                            ELSE <<[item |-> range, committed |-> RangeAtPublish(range)]>>,
                            FALSE, TRUE, <<>>)
            /\ stableSubs' = stableSubs + 1
            /\ rangeChanges' = rangeChanges + 1
       ELSE /\ last' = Quiet("setRenderedRange", range)
            /\ UNCHANGED <<renderedRange, stableSubs, rangeChanges>>
    /\ UNCHANGED <<orientation, forOf, subscription, detachedSubjectStopped,
                   renderedRangeSubjectStopped, dataLength, totalContentSize,
                   renderedContentTransform, pendingScrollOffset, scrollLeft, scrollTop,
                   microtasks, renderedCalls, renderedAt, offsetCalls, lastOffsetArg,
                   stale>>
    /\ UNCHANGED lifeVars

\* setRenderedContentOffset(offset, to)
SetRenderedContentOffset(offset, to) ==
    /\ Call("setRenderedContentOffset", FALSE)
    /\ IF TransformDiffers(TransformString(offset, to))
       THEN /\ renderedContentTransform' =
                   <<BypassSecurityTrustStyle(TransformString(offset, to))>>
            /\ last' = Step("setRenderedContentOffset", <<offset, to>>, <<>>, <<>>,
                            FALSE, TRUE, <<>>)
       ELSE /\ UNCHANGED renderedContentTransform
            /\ last' = Quiet("setRenderedContentOffset", <<offset, to>>)
    /\ UNCHANGED <<orientation, forOf, subscription, detachedSubjectStopped,
                   renderedRangeSubjectStopped, dataLength, renderedRange,
                   totalContentSize, pendingScrollOffset, scrollLeft, scrollTop,
                   stableSubs, microtasks, rangeChanges, renderedCalls, renderedAt,
                   offsetCalls, lastOffsetArg, stale>>
    /\ UNCHANGED lifeVars

\* A setScrollOffset that also writes the physical scroll position at once.
SetScrollOffsetImmediate(offset) ==
    /\ Call("setScrollOffset", FALSE)
    /\ pendingScrollOffset' = NextPendingScrollOffset(offset)
    /\ IF orientation = "horizontal"
       THEN scrollLeft' = offset /\ UNCHANGED scrollTop
       ELSE scrollTop' = offset /\ UNCHANGED scrollLeft
    /\ last' = Step("setScrollOffset", offset, <<>>, <<>>, FALSE, TRUE,
                    <<[prop |-> ScrollProp, value |-> offset]>>)
    /\ offsetCalls' = Min(offsetCalls + 1, 2)
    /\ lastOffsetArg' = <<offset>>
    /\ UNCHANGED <<orientation, forOf, subscription, detachedSubjectStopped,
                   renderedRangeSubjectStopped, dataLength, renderedRange,
                   totalContentSize, renderedContentTransform,
                   stableSubs, microtasks, rangeChanges, renderedCalls, renderedAt,
                   stale>>
    /\ UNCHANGED lifeVars

\* setScrollOffset(offset)
SetScrollOffset(offset) ==
    /\ Call("setScrollOffset", FALSE)
    /\ pendingScrollOffset' = NextPendingScrollOffset(offset)
    /\ last' = Step("setScrollOffset", offset, <<>>, <<>>, FALSE, TRUE, <<>>)
    /\ offsetCalls' = Min(offsetCalls + 1, 2)
    /\ lastOffsetArg' = <<offset>>
    /\ UNCHANGED <<orientation, forOf, subscription, detachedSubjectStopped,
                   renderedRangeSubjectStopped, dataLength, renderedRange,
                   totalContentSize, renderedContentTransform, scrollLeft, scrollTop,
                   stableSubs, microtasks, rangeChanges, renderedCalls, renderedAt,
                   stale>>
    /\ UNCHANGED lifeVars

\* ngDoCheck(): a change detection pass; the framework runs it when the zone's
\* microtask queue empties, which is at the end of a task or, for a setter
\* called from outside the zone, when that setter's NgZone.run() returns.
NgDoCheck ==
    /\ IF pendingScrollOffset # <<>>
       THEN /\ IF orientation = "horizontal"
               THEN scrollLeft' = pendingScrollOffset[1] /\ UNCHANGED scrollTop
               ELSE scrollTop' = pendingScrollOffset[1] /\ UNCHANGED scrollLeft
            /\ last' = Step("ngDoCheck", offsetCalls, <<>>, <<>>, FALSE, FALSE,
                            <<[prop |-> ScrollProp, value |-> pendingScrollOffset[1]]>>)
       ELSE /\ UNCHANGED <<scrollLeft, scrollTop>>
            /\ last' = Quiet("ngDoCheck", offsetCalls)
    /\ offsetCalls' = 0
    /\ UNCHANGED <<orientation, forOf, subscription, detachedSubjectStopped,
                   renderedRangeSubjectStopped, dataLength, renderedRange,
                   totalContentSize, renderedContentTransform, pendingScrollOffset,
                   schedVars, rangeChanges, renderedCalls, seqProgress, renderedAt,
                   lastOffsetArg, stale>>
    /\ UNCHANGED lifeVars

\* Mutant: the onStable subscriber calls onContentRendered itself instead of
\* queueing it with Promise.resolve().then().
OnStableSync ==
    /\ stableSubs > 0
    /\ stableSubs' = 0
    /\ renderedCalls' = renderedCalls + stableSubs
    /\ renderedAt' = seqProgress
    /\ stale' = IF stale > stableSubs THEN stale - stableSubs ELSE 0
    /\ last' = Step("contentRendered", [stale |-> stale > 0], <<"onContentRendered">>,
                    <<>>, FALSE, FALSE, <<>>)
    /\ UNCHANGED <<progVars, microtasks, phase, nCalls, rangeChanges, seqProgress,
                   offsetCalls, lastOffsetArg>>
    /\ UNCHANGED lifeVars

\* NgZone.onStable emits: every take(1) subscriber made by setRenderedRange
\* runs once and queues Promise.resolve().then(onContentRendered).
OnStable ==
    /\ stableSubs > 0
    /\ microtasks' = microtasks + stableSubs
    /\ stableSubs' = 0
    /\ last' = Quiet("onStable", <<>>)
    /\ UNCHANGED <<progVars, phase, nCalls, histVars>>
    /\ UNCHANGED lifeVars

\* A queued promise callback runs once the task has returned:
\* this._scrollStrategy.onContentRendered().
ContentRenderedCallback ==
    /\ phase = "idle"
    /\ microtasks > 0
    /\ microtasks' = microtasks - 1
    /\ renderedCalls' = renderedCalls + 1
    /\ renderedAt' = seqProgress
    /\ stale' = IF stale > 0 THEN stale - 1 ELSE 0
    /\ last' = Step("contentRendered", [stale |-> stale > 0], <<"onContentRendered">>,
                    <<>>, FALSE, FALSE, <<>>)
    /\ UNCHANGED <<progVars, stableSubs, phase, nCalls, rangeChanges, seqProgress,
                   offsetCalls, lastOffsetArg>>
    /\ UNCHANGED lifeVars

\* A task starts: an event handler, a timer or a policy callback begins to
\* run.  Promise callbacks and the zone's onStable of the previous task have
\* run by then.
BeginTask ==
    /\ phase = "idle"
    /\ stableSubs = 0
    /\ microtasks = 0
    /\ initState # "queued"
    /\ phase' = "task"
    /\ nCalls' = 0
    /\ rangeChanges' = 0
    /\ renderedCalls' = 0
    /\ seqProgress' = 0
    /\ renderedAt' = 0
    /\ last' = Quiet("beginTask", <<>>)
    /\ UNCHANGED <<progVars, stableSubs, microtasks, offsetCalls, lastOffsetArg, stale>>
    /\ UNCHANGED lifeVars

\* The running task returns.
EndTask ==
    /\ phase = "task"
    /\ phase' = "idle"
    /\ last' = Quiet("endTask", <<>>)
    /\ UNCHANGED <<progVars, stableSubs, microtasks, nCalls, histVars>>
    /\ UNCHANGED lifeVars

\* CdkVirtualForOf.measureRangeSize(range, orientation), whose source is not
\* part of the modelled file: by the contract of the data source it measures the
\* rendered items only and throws if range includes an index that is not
\* rendered; the rendered items are those of the committed range.
ForOfMeasureThrows(range) ==
    \E i \in range.start .. (range.end - 1) :
        i < renderedRange.start \/ i >= renderedRange.end

\* A measureRangeSize that catches the data source's error and answers 0.
MeasureOutcomeSwallow(range, px) ==
    IF forOf = <<>> \/ ForOfMeasureThrows(range)
    THEN [err |-> FALSE, ret |-> <<0>>]
    ELSE [err |-> FALSE, ret |-> <<px>>]

\* The outcome of measureRangeSize(range): 0 without a data source, else
\* whatever the data source's measureRangeSize does, its error included (there
\* is no try/catch); px is the extent the data source measures in the DOM.
MeasureOutcome(range, px) ==
    IF forOf = <<>>
    THEN [err |-> FALSE, ret |-> <<0>>]
    ELSE IF ForOfMeasureThrows(range)
         THEN [err |-> TRUE, ret |-> <<>>]
         ELSE [err |-> FALSE, ret |-> <<px>>]

\* measureRangeSize(range)
MeasureRangeSize(range, px) ==
    /\ Call("measureRangeSize", FALSE)
    /\ last' = Step("measureRangeSize",
                    [range |-> range, ret |-> MeasureOutcome(range, px).ret],
                    <<>>, <<>>, MeasureOutcome(range, px).err, FALSE, <<>>)
    /\ UNCHANGED <<progVars, stableSubs, microtasks, rangeChanges, renderedCalls,
                   renderedAt, offsetCalls, lastOffsetArg, stale>>
    /\ UNCHANGED lifeVars

\* ngOnInit(): the framework calls it once, in the task that first checks the
\* view; it only queues the promise callback of lines 96-106.
NgOnInit ==
    /\ initState = "constructed"
    /\ Call("ngOnInit", FALSE)
    /\ initState' = "queued"
    /\ last' = Quiet("ngOnInit", <<>>)
    /\ UNCHANGED <<progVars, stableSubs, microtasks, rangeChanges, renderedCalls,
                   renderedAt, offsetCalls, lastOffsetArg, stale>>
    /\ UNCHANGED <<viewportSize, scrollListening, sampleHasValue, attachCalls,
                   eventsInFrame>>

\* What getViewportSize() returns while _scrollStrategy.attach(this) runs, were
\* the policy attached before the size is measured: the size before the step.
ViewportSizeAtAttachStale(measured) == viewportSize

\* What getViewportSize() returns while _scrollStrategy.attach(this) runs:
\* _viewportSize is assigned on lines 96-97, before the call on line 98.
ViewportSizeAtAttach(measured) == measured

\* The promise callback queued by ngOnInit, run when the task that queued it
\* has returned: it measures the viewport (clientWidth or clientHeight, here
\* measured), attaches the policy and subscribes to the sampled scroll events.
\* It tests nothing, so it also runs when the viewport was destroyed meanwhile.
InitCallback(measured) ==
    /\ initState = "queued"
    /\ phase = "idle"
    /\ initState' = "done"
    /\ viewportSize' = measured
    /\ attachCalls' = Min(attachCalls + 1, 2)
    /\ scrollListening' = TRUE
    /\ last' = Step("initCallback",
                    [measured |-> measured, atAttach |-> ViewportSizeAtAttach(measured)],
                    <<"attach">>, <<>>, FALSE, FALSE, <<>>)
    /\ UNCHANGED <<progVars, schedVars, histVars, sampleHasValue, eventsInFrame>>

\* The viewport element dispatches a scroll event, in a task of its own.
\* sampleTime's subscriber keeps it (hasValue = true) if the subscription of
\* lines 100-105 exists; nothing ever unsubscribes it.
ScrollEvent ==
    /\ phase = "idle"
    /\ initState # "queued"
    /\ sampleHasValue' = (sampleHasValue \/ scrollListening)
    /\ eventsInFrame' = IF attachCalls > 0 THEN Min(eventsInFrame + 1, 2) ELSE eventsInFrame
    /\ last' = Quiet("scroll", <<>>)
    /\ UNCHANGED <<progVars, schedVars, histVars, initState, viewportSize,
                   scrollListening, attachCalls>>

\* sampleTime without its hasValue test: it emits at every tick.
SampleEmitsAlways == TRUE

\* sampleTime(0, animationFrameScheduler) at a tick: it emits the last value
\* it holds, if it holds one.
SampleEmits == sampleHasValue

\* An animation frame: the periodic action sampleTime scheduled on the
\* animationFrameScheduler when it was subscribed runs, in a task of its own,
\* and the subscriber of line 105 calls the policy if sampleTime emits.
AnimationFrame ==
    /\ scrollListening
    /\ phase = "idle"
    /\ initState # "queued"
    /\ sampleHasValue' = FALSE
    /\ eventsInFrame' = 0
    /\ last' = Step("frame", <<eventsInFrame>>,
                    IF SampleEmits THEN <<"onContentScrolled">> ELSE <<>>,
                    <<>>, FALSE, FALSE, <<>>)
    /\ UNCHANGED <<progVars, schedVars, histVars, initState, viewportSize,
                   scrollListening, attachCalls>>

\* One step of the viewport and its environment, the operations drawing
\* their arguments from the given sets.  The framework runs ngOnDestroy once,
\* and the data source, a directive inside the viewport's view that attaches
\* itself when it is constructed, is not constructed in a destroyed view.
NextWith(srcs, lens, ranges, sizes, toffs, edges, soffs) ==
    \/ \E s \in srcs : ~detachedSubjectStopped /\ Attach(s)
    \/ Detach
    \/ ~detachedSubjectStopped /\ NgOnDestroy
    \/ \E s \in srcs, len \in lens : Emit(s, len)
    \/ \E size \in sizes : SetTotalContentSize(size)
    \/ \E range \in ranges : SetRenderedRange(range)
    \/ \E offset \in toffs, to \in edges : SetRenderedContentOffset(offset, to)
    \/ \E offset \in soffs : SetScrollOffset(offset)
    \/ NgDoCheck
    \/ OnStable
    \/ ContentRenderedCallback
    \/ BeginTask
    \/ EndTask

Next ==
    \/ NextWith(Sources, Lengths, ListRange, Sizes, Offsets, Edges, Offsets)
    \/ \E range \in MeasuredRange, px \in Sizes : MeasureRangeSize(range, px)
    \/ ~detachedSubjectStopped /\ NgOnInit
    \/ \E measured \in Sizes : InitCallback(measured)
    \/ ScrollEvent
    \/ AnimationFrame

Spec == Init /\ [][Next]_vars

\* The state space of Spec is the product of the viewport's independent
\* fields.  Each specification below has every operation of Spec and is a
\* restriction of it: it gives the full argument sets to the operations one
\* group of claims is about and a single effective argument to the others;
\* where the orientation plays no part it keeps its default.

OneRange == {[start |-> 0, end |-> MaxIdx]}

\* Attachment and data length: all sources and lengths.
NextData ==
    NextWith(Sources, Lengths, OneRange, {MaxSize}, {0}, {"to-start"}, {MaxOffset})

SpecData == InitWith({"vertical"}) /\ [][NextData]_vars

\* Rendered range, content size and the content-rendered notification.
NextRender ==
    NextWith({1}, {MaxLen}, ListRange, {MaxSize}, {0}, {"to-start"}, {MaxOffset})

SpecRender == InitWith({"vertical"}) /\ [][NextRender]_vars

\* Scroll offset: all offsets.
NextScroll ==
    NextWith({1}, {MaxLen}, OneRange, {MaxSize}, {0}, {"to-start"}, Offsets)

SpecScroll == Init /\ [][NextScroll]_vars

\* Measuring: the operations that decide what measureRangeSize answers (the
\* data source attached and the range rendered), with all the ranges, rendered
\* and asked for; the other operations write neither.
NextMeasure ==
    \/ \E s \in Sources : ~detachedSubjectStopped /\ Attach(s)
    \/ Detach
    \/ ~detachedSubjectStopped /\ NgOnDestroy
    \/ \E range \in ListRange : SetRenderedRange(range)
    \/ \E range \in MeasuredRange, px \in Sizes : MeasureRangeSize(range, px)
    \/ OnStable
    \/ ContentRenderedCallback
    \/ BeginTask
    \/ EndTask

SpecMeasure == InitWith({"vertical"}) /\ [][NextMeasure]_vars

\* Rendered content offset: all offsets and edges, both orientations.
NextTransform ==
    NextWith({1}, {MaxLen}, OneRange, {MaxSize}, Offsets, Edges, {MaxOffset})

SpecTransform == Init /\ [][NextTransform]_vars

\* Initialisation, scroll events and teardown: the operations that reach the
\* scrolling policy's attach, onContentScrolled and detach.  The framework never
\* calls ngOnInit on a destroyed directive.
NextLife ==
    \/ ~detachedSubjectStopped /\ NgOnInit
    \/ \E measured \in Sizes : InitCallback(measured)
    \/ ScrollEvent
    \/ AnimationFrame
    \/ ~detachedSubjectStopped /\ NgOnDestroy
    \/ BeginTask
    \/ EndTask

SpecLife == Init /\ [][NextLife]_vars

\* ------------------------------------------------------------- claims

\* The cycle has settled: the task returned and nothing is pending.
Settled == phase = "idle" /\ stableSubs = 0 /\ microtasks = 0

\* C1: attach(dataSource) while a data source is attached throws and leaves
\* the attached source and all other viewport state unchanged; attach while
\* none is attached (in particular right after detach(), which always leaves
\* none attached) succeeds and binds the given source.  So at most one source
\* is attached, and only the attached source's subscription is live.
C1_AttachExclusive ==
    [][ /\ (last'.op = "attach" /\ forOf # <<>>) =>
              (last'.err /\ UNCHANGED <<progVars, stableSubs, microtasks>>)
        /\ (last'.op = "attach" /\ forOf = <<>>) =>
              (~last'.err /\ forOf' = <<last'.arg>> /\ subscription'[last'.arg] = "live")
        /\ (last'.op = "detach") => forOf' = <<>>
        /\ (last.op = "detach" /\ last'.op = "attach") =>
              (~last'.err /\ forOf' = <<last'.arg>>)
        /\ Cardinality({s \in Sources : subscription'[s] = "live"}) <= 1
        /\ \A s \in Sources : subscription'[s] = "live" <=> forOf' = <<s>>
      ]_vars

\* C1 witness: attach of another source was refused while one was attached.
C1_Witness ==
    last.op = "attach" /\ last.err /\ forOf # <<>> /\ forOf # <<last.arg>>

\* C2: setRenderedRange(r) with r equal to the current range publishes nothing,
\* does not mark for check and schedules no content-rendered callback; so the
\* second of two calls in a row with the same r publishes nothing, and the two
\* calls publish exactly one range when the first one changed the range (and
\* the range stream has not completed).
C2_SameRangeNoOp ==
    [][ last'.op = "setRenderedRange" =>
          /\ (renderedRange = last'.arg) =>
                (/\ last'.pub = <<>>
                 /\ ~last'.marked
                 /\ UNCHANGED <<progVars, stableSubs, microtasks>>)
          /\ (last.op = "setRenderedRange" /\ last.arg = last'.arg) =>
                (/\ last'.pub = <<>>
                 /\ (last.marked /\ ~renderedRangeSubjectStopped) =>
                        Len(last.pub) + Len(last'.pub) = 1)
      ]_vars

\* C2 witness: the second of two equal calls ran, after the first published.
C2_Witness ==
    /\ last.op = "setRenderedRange"
    /\ last.again = <<1>>
    /\ last.pub = <<>>
    /\ ~last.marked
    /\ renderedRange = last.arg

\* C3: a state-check pass that follows N >= 1 setScrollOffset calls makes
\* exactly one physical scroll write, of the last call's argument, to the
\* scroll property of the viewport's orientation.
C3_SingleFlushLastValue ==
    [][ (last'.op = "ngDoCheck" /\ offsetCalls >= 1) =>
          /\ last'.writes =
                <<[prop |-> IF orientation = "horizontal" THEN "scrollLeft" ELSE "scrollTop",
                   value |-> lastOffsetArg[1]]>>
          /\ (IF orientation = "horizontal" THEN scrollLeft' ELSE scrollTop')
                = lastOffsetArg[1]
      ]_vars

\* C3 witness: a pass flushed the offset after several setScrollOffset calls.
C3_Witness ==
    /\ last.op = "ngDoCheck"
    /\ last.arg = 2
    /\ Len(last.writes) = 1
    /\ last.writes[1].value = lastOffsetArg[1]
    /\ MeasureScrollOffset = lastOffsetArg[1]

\* C4: when a task calls setRenderedRange (changing the range), then
\* setTotalContentSize, then setRenderedContentOffset, the policy's
\* onContentRendered runs exactly once in that cycle, and only after the third
\* call.
C4_SettleThenNotify ==
    /\ (seqProgress = 3 /\ renderedCalls > 0) => renderedAt = 3
    /\ (Settled /\ seqProgress = 3) => renderedCalls = 1

\* C4 witness: the cycle of the three calls settled with the callback made.
C4_Witness ==
    Settled /\ seqProgress = 3 /\ renderedCalls = 1 /\ renderedAt = 3

\* C5 (as claimed): in a settled cycle with at least one range change,
\* onContentRendered ran exactly once, however many setRenderedRange calls
\* changed the range.
C5_OncePerCycle ==
    (Settled /\ rangeChanges >= 1) => renderedCalls = 1

\* C6: an emission of the attached source with a length other than dataLength
\* sets dataLength to it and calls onDataLengthChanged once; one with the same
\* length calls nothing and changes nothing; no other operation changes
\* dataLength or calls onDataLengthChanged.
C6_LengthNotification ==
    [][ /\ (last'.op = "emit" /\ forOf = <<last'.arg[1]>>) =>
              IF last'.arg[2] # dataLength
              THEN /\ dataLength' = last'.arg[2]
                   /\ last'.calls = <<"onDataLengthChanged">>
              ELSE /\ last'.calls = <<>>
                   /\ UNCHANGED <<progVars, stableSubs, microtasks>>
        /\ (last'.op # "emit") =>
              /\ dataLength' = dataLength
              /\ \A i \in 1..Len(last'.calls) : last'.calls[i] # "onDataLengthChanged"
      ]_vars

\* C6 witness: the attached source's emission changed dataLength and notified.
C6_Witness ==
    /\ last.op = "emit"
    /\ forOf = <<last.arg[1]>>
    /\ last.calls = <<"onDataLengthChanged">>
    /\ dataLength = last.arg[2]
    /\ last.old # dataLength

\* C7 (as claimed): when the attached source emits the same length L twice in
\* a row, onDataLengthChanged is called exactly once for the two emissions,
\* for every L and every state.
C7_OnceForEveryLength ==
    [][ (/\ last.op = "emit" /\ last'.op = "emit" /\ last'.arg = last.arg
         /\ forOf = <<last.arg[1]>>) =>
            Len(last.calls) + Len(last'.calls) = 1
      ]_vars

\* C7 (amended): when the attached source emits the same length L twice in a
\* row, the second emission never calls onDataLengthChanged, and the first
\* calls it exactly once if L differs from dataLength before it and not at all
\* if L equals it.
C7_OnceIfLengthDiffers ==
    [][ (/\ last.op = "emit" /\ last'.op = "emit" /\ last'.arg = last.arg
         /\ forOf = <<last.arg[1]>>) =>
            /\ Len(last'.calls) = 0
            /\ Len(last.calls) = (IF last.arg[2] # last.old THEN 1 ELSE 0)
      ]_vars

\* C7 witness: the second of two equal emissions of the attached source ran,
\* after the first one notified.
C7_Witness ==
    /\ last.op = "emit"
    /\ last.again = <<1>>
    /\ forOf = <<last.arg[1]>>
    /\ last.calls = <<>>

\* C8 (as claimed): onContentRendered never runs for a range change made
\* before a detach() or ngOnDestroy() that has happened since.
C8_NoNotificationAfterDetach ==
    last.op = "contentRendered" => ~last.arg.stale

C10_RangeWithinData ==
    /\ 0 <= renderedRange.start
    /\ renderedRange.start <= renderedRange.end
    /\ renderedRange.end <= dataLength

\* C11: the range stream and the committed range agree.  The range starts as
\* {0,0} with nothing published; before destroy, a setRenderedRange call that
\* changes the range publishes exactly one item, equal to the new range, while
\* getRenderedRange() already returns it, and a step that publishes nothing
\* leaves the committed range alone (so the committed range is always the last
\* published one); once the stream is completed no step publishes anything.
C11_StreamAgreesWithRange ==
    /\ renderedRange = [start |-> 0, end |-> 0]
    /\ [][/\ (/\ last'.op = "setRenderedRange"
              /\ ~renderedRangeSubjectStopped
              /\ ~RangesEqual(renderedRange, last'.arg))
                 => (/\ Len(last'.pub) = 1
                     /\ last'.pub[1].item = last'.arg
                     /\ last'.pub[1].committed = last'.arg
                     /\ renderedRange' = last'.arg)
          /\ (~renderedRangeSubjectStopped' /\ last'.pub = <<>>)
                 => (renderedRange' = renderedRange)
          /\ renderedRangeSubjectStopped => (last'.pub = <<>>)]_vars

\* C11 witness: a second change of the range was published, and the committed
\* range is the published one.
C11_Witness ==
    /\ last.op = "setRenderedRange"
    /\ rangeChanges >= 2
    /\ Len(last.pub) = 1
    /\ last.pub[1].item = renderedRange
    /\ renderedRange # [start |-> 0, end |-> 0]

C13_OncePerFrame ==
    [][/\ (last'.op = "frame")
             => (last'.calls = IF eventsInFrame >= 1
                               THEN <<"onContentScrolled">>
                               ELSE <<>>)
       /\ (last'.op # "frame")
             => (\A i \in 1 .. Len(last'.calls) : last'.calls[i] # "onContentScrolled")]_vars

\* C13 witness: a frame in which several scroll events had arrived has called
\* the policy once.
C13_Witness ==
    /\ last.op = "frame"
    /\ last.arg = <<2>>
    /\ last.calls = <<"onContentScrolled">>
    /\ attachCalls = 1

\* C14: the policy's attach is called once, by the deferred step of ngOnInit and
\* by nothing else; when it is called the viewport size is already the measured
\* one; and onContentScrolled is only ever called after it.
C14_AttachOnceMeasuredFirst ==
    /\ [](attachCalls = IF initState = "done" THEN 1 ELSE 0)
    /\ [][/\ (last'.op = "initCallback")
                => (/\ last'.calls = <<"attach">>
                    /\ last'.arg.atAttach = last'.arg.measured
                    /\ viewportSize' = last'.arg.measured)
          /\ (last'.op # "initCallback")
                => (\A i \in 1 .. Len(last'.calls) : last'.calls[i] # "attach")
          /\ (\E i \in 1 .. Len(last'.calls) : last'.calls[i] = "onContentScrolled")
                => (attachCalls = 1)]_vars

\* C14 witness: the deferred step measured a size other than the initial one
\* and attached the policy.
C14_Witness ==
    /\ last.op = "initCallback"
    /\ last.calls = <<"attach">>
    /\ last.arg.measured > 0
    /\ viewportSize = last.arg.measured

\* C20 (as claimed): once ngOnDestroy has detached the policy, no step calls
\* the policy's attach or onContentScrolled.
C20_NoPolicyCallAfterDestroy ==
    [][detachedSubjectStopped
         => (\A i \in 1 .. Len(last'.calls) :
                last'.calls[i] \notin {"attach", "onContentScrolled"})]_vars

\* C15: detach() never throws and calls nothing back; after it no data source
\* is attached, and dataLength, the rendered range, the total content size and
\* the pending scroll offset are as before; called when already detached (a
\* second time in a row, or after ngOnDestroy) it changes no field at all.
C15_DetachIdempotent ==
    [][(last'.op = "detach")
          => (/\ ~last'.err
              /\ last'.calls = <<>>
              /\ last'.pub = <<>>
              /\ forOf' = <<>>
              /\ UNCHANGED <<dataLength, renderedRange, totalContentSize,
                             pendingScrollOffset>>
              /\ (forOf = <<>> \/ last.op = "detach" \/ detachedSubjectStopped)
                    => UNCHANGED progVars)]_vars

\* C15 witness: detach() ran twice in a row after ngOnDestroy.
C15_Witness ==
    /\ last.op = "detach"
    /\ last.again # <<>>
    /\ detachedSubjectStopped
    /\ ~last.err

\* C16 (as claimed): setRenderedContentOffset(offset, edge) computing the
\* transform that is already applied does not mark the viewport for check; so
\* the second of two calls in a row with the same offset and edge marks nothing.
C16_SameTransformNoOp ==
    [][(/\ last'.op = "setRenderedContentOffset"
        /\ renderedContentTransform # <<>>
        /\ renderedContentTransform[1].changingThisBreaksApplicationSecurity
              = TransformString(last'.arg[1], last'.arg[2]))
          => ~last'.marked]_vars

\* C17: setRenderedContentOffset(offset, edge) applies, along X for a horizontal
\* and Y for a vertical viewport, translate(offset px) for to-start and
\* translate(offset px) followed by translate(-100%) for to-end.
C17_TransformComposition ==
    [][(last'.op = "setRenderedContentOffset")
          => (/\ Len(renderedContentTransform') = 1
              /\ renderedContentTransform'[1].changingThisBreaksApplicationSecurity =
                    IF orientation = "horizontal"
                    THEN IF last'.arg[2] = "to-end"
                         THEN "translateX(" \o ToString(last'.arg[1])
                                  \o "px) translateX(-100%)"
                         ELSE "translateX(" \o ToString(last'.arg[1]) \o "px)"
                    ELSE IF last'.arg[2] = "to-end"
                         THEN "translateY(" \o ToString(last'.arg[1])
                                  \o "px) translateY(-100%)"
                         ELSE "translateY(" \o ToString(last'.arg[1]) \o "px)")]_vars

\* C17 witness: a horizontal viewport applied a to-end offset other than 0.
C17_Witness ==
    /\ last.op = "setRenderedContentOffset"
    /\ last.arg = <<MaxOffset, "to-end">>
    /\ orientation = "horizontal"
    /\ renderedContentTransform # <<>>

C19_FlushedOnce ==
    [][(last'.op = "ngDoCheck" /\ offsetCalls = 0) => (last'.writes = <<>>)]_vars

====
